---- MODULE Spec2Model ----
(***************************************************************************)
(* A model of modules/PatternUtils.js: the compiled-pattern cache,         *)
(* matchPattern / getParams, and the token scan of formatPattern.          *)
(*                                                                         *)
(* JavaScript strings are sequences of one-character strings               *)
(* ("/x" is <<"/", "x">>), so that charAt, substr, slicing, encoding and   *)
(* decoding are computed and not assumed.  Indices named as in the source  *)
(* (i, curTokenIdx, nextParenIdx, splatIndex, parenCount) are 0-based as   *)
(* in the source; Sequences being 1-based, element i of a JavaScript array *)
(* a is a[i + 1].                                                          *)
(***************************************************************************)
EXTENDS Integers, Sequences, FiniteSets, TLC

(***************************************************************************)
(* Bounds of the input sets.                                               *)
(***************************************************************************)
\* longest pattern, in atoms, of the formatter's core input set
MaxTokens == 5
\* longest pattern, in atoms, of the formatter's wide input set
MaxWideTokens == 3
\* longest params.splat sequence
MaxSplat == 2
\* longest pattern, in atoms, of the matcher's input set
MaxMatchTokens == 3
\* longest pathname of the matcher's input set
MaxPath == 4

(***************************************************************************)
(* Strings.                                                                *)
(***************************************************************************)
RECURSIVE Flatten(_)
\* the concatenation of a sequence of strings (Array.prototype.join(''))
Flatten(ss) == IF ss = <<>> THEN <<>> ELSE Head(ss) \o Flatten(Tail(ss))

\* all sequences over S of length at most n
SeqsUpTo(S, n) == UNION { [1..k -> S] : k \in 0..n }

\* s.substring(from) with a 0-based from
Substring(s, from) == SubSeq(s, from + 1, Len(s))

\* s.charAt(k) with a 0-based k: the empty string when k is out of range
CharAt(s, k) == IF k >= 0 /\ k < Len(s) THEN <<s[k + 1]>> ELSE <<>>

(***************************************************************************)
(* JavaScript values that params can hold: undefined, a string, or an      *)
(* array of such values.  One record shape for all three, told apart by k. *)
(***************************************************************************)
Undefined == [k |-> "undefined", s |-> <<>>, xs |-> <<>>]
StrV(s) == [k |-> "string", s |-> s, xs |-> <<>>]
ArrV(xs) == [k |-> "array", s |-> <<>>, xs |-> xs]

\* v != null
NotNull(v) == v.k # "undefined"

\* Array.isArray(v)
IsArray(v) == v.k = "array"

\* params[name]: undefined for a key the object does not have
Lookup(params, name) == IF name \in DOMAIN params THEN params[name] ELSE Undefined

\* arr[idx] of a JavaScript array value, 0-based: undefined out of range
ArrayGet(arr, idx) == IF idx >= 0 /\ idx < Len(arr.xs) THEN arr.xs[idx + 1] ELSE Undefined

\* the key "splat"
SPLAT == <<"s", "p", "l", "a", "t">>

(***************************************************************************)
(* URI escaping (ECMAScript encodeURIComponent, encodeURI and              *)
(* decodeURIComponent) on the characters of the model.                     *)
(***************************************************************************)
\* characters neither encoder escapes, among those of the model
UriUnreserved == {"a", "b", "x", "v", "w", "s", "t", "u", "0", "1", "2", "5", "F",
                  "(", ")", "*"}

\* characters encodeURI keeps and encodeURIComponent escapes
UriReserved == {"/", "@", ":"}

\* the escape sequence of a character that is escaped
PercentEscape(c) ==
  CASE c = "/" -> <<"%", "2", "F">>
    [] c = "@" -> <<"%", "4", "0">>
    [] c = ":" -> <<"%", "3", "A">>
    [] c = "%" -> <<"%", "2", "5">>
    [] c = "\"" -> <<"%", "2", "2">>
    [] c = "\\" -> <<"%", "5", "C">>

RECURSIVE EncodeWith(_, _)
\* escape every character of s that is not in keep
EncodeWith(keep, s) ==
  IF s = <<>> THEN <<>>
  ELSE (IF Head(s) \in keep THEN <<Head(s)>> ELSE PercentEscape(Head(s)))
       \o EncodeWith(keep, Tail(s))

\* the text JavaScript converts a value to before escaping it
ToStringV(v) == IF v.k = "string" THEN v.s ELSE <<>>

encodeURIComponent(v) == EncodeWith(UriUnreserved, ToStringV(v))

encodeURI(v) == EncodeWith(UriUnreserved \cup UriReserved, ToStringV(v))

\* the character a well-formed escape sequence %h1h2 stands for, "" for a
\* sequence decodeURIComponent rejects; the escapes of the model's characters
HexPair(h1, h2) ==
  CASE <<h1, h2>> = <<"2", "2">> -> "\""
    [] <<h1, h2>> = <<"2", "5">> -> "%"
    [] <<h1, h2>> = <<"2", "F">> -> "/"
    [] <<h1, h2>> = <<"3", "A">> -> ":"
    [] <<h1, h2>> = <<"4", "0">> -> "@"
    [] <<h1, h2>> = <<"5", "C">> -> "\\"
    [] OTHER -> ""

RECURSIVE Decodable(_)
\* decodeURIComponent(s) does not throw URIError
Decodable(s) ==
  IF s = <<>> THEN TRUE
  ELSE IF Head(s) # "%" THEN Decodable(Tail(s))
  ELSE /\ Len(s) >= 3
       /\ HexPair(s[2], s[3]) # ""
       /\ Decodable(SubSeq(s, 4, Len(s)))

RECURSIVE decodeURIComponent(_)
\* decodeURIComponent(s) for a decodable s
decodeURIComponent(s) ==
  IF s = <<>> THEN <<>>
  ELSE IF Head(s) # "%" THEN <<Head(s)>> \o decodeURIComponent(Tail(s))
  ELSE <<HexPair(s[2], s[3])>> \o decodeURIComponent(SubSeq(s, 4, Len(s)))

(***************************************************************************)
(* Tokens.                                                                 *)
(***************************************************************************)
OPEN == <<"(">>
CLOSE == <<")">>
STAR == <<"*">>
STARSTAR == <<"*", "*">>
ESC_OPEN == <<"\\", "(">>
ESC_CLOSE == <<"\\", ")">>

\* token === '*' || token === '**'
IsSplatToken(token) == token = STAR \/ token = STARSTAR

\* token.charAt(0) === ':', for a token none of the earlier branches took
IsParamToken(token) ==
  /\ ~IsSplatToken(token)
  /\ token \notin {OPEN, CLOSE, ESC_OPEN, ESC_CLOSE}
  /\ CharAt(token, 0) = <<":">>

(***************************************************************************)
(* _compilePattern.  The tokenizer and the automaton are the work of the   *)
(* PathToRegexp dependency, which is not part of the sources; they are     *)
(* modelled from the specification's description of the compiler           *)
(* (section 4.1): `:name`, `*`, `**`, `(`, `)`, `\(` and `\)` are atoms    *)
(* and everything else accumulates into literal-text atoms; paramNames has *)
(* the declared name of a named param and a positional placeholder for a   *)
(* splat, in capture order.                                                *)
(***************************************************************************)
\* characters that can start a param name, among those of the model
NameStart == {"a", "b", "x", "v", "w", "s", "t", "u"}

\* characters that can continue a param name
NameChars == NameStart \cup {"0", "1", "2", "5"}

RECURSIVE NameEnd(_, _)
\* the 1-based position after the name that starts at pos
NameEnd(p, pos) ==
  IF pos <= Len(p) /\ p[pos] \in NameChars THEN NameEnd(p, pos + 1) ELSE pos

RECURSIVE Tokenize(_, _, _)
\* the atoms of p from the 1-based position pos on, lit being the literal
\* text accumulated so far
Tokenize(p, pos, lit) ==
  LET flush == IF lit = <<>> THEN <<>> ELSE <<lit>>
      c == p[pos]
      n == IF pos < Len(p) THEN p[pos + 1] ELSE ""
  IN IF pos > Len(p) THEN flush
     ELSE IF c = ":" /\ n \in NameStart
       THEN flush \o <<SubSeq(p, pos, NameEnd(p, pos + 1) - 1)>>
                  \o Tokenize(p, NameEnd(p, pos + 1), <<>>)
     ELSE IF c = "*" /\ n = "*"
       THEN flush \o <<STARSTAR>> \o Tokenize(p, pos + 2, <<>>)
     ELSE IF c \in {"*", "(", ")"}
       THEN flush \o <<<<c>>>> \o Tokenize(p, pos + 1, <<>>)
     ELSE IF c = "\\" /\ n \in {"(", ")"}
       THEN flush \o <<<<c, n>>>> \o Tokenize(p, pos + 2, <<>>)
     ELSE Tokenize(p, pos + 1, Append(lit, c))

\* the placeholder name of the k-th splat (k counted from 0)
Placeholder(k) == <<(<<"0", "1", "2", "3", "4", "5", "6", "7", "8", "9">>)[k + 1]>>

RECURSIVE KeyNames(_, _)
\* the names of the capturing atoms of tokens, k splats having come before
KeyNames(tokens, k) ==
  IF tokens = <<>> THEN <<>>
  ELSE IF IsSplatToken(Head(tokens))
    THEN <<Placeholder(k)>> \o KeyNames(Tail(tokens), k + 1)
  ELSE IF IsParamToken(Head(tokens))
    THEN <<Substring(Head(tokens), 1)>> \o KeyNames(Tail(tokens), k)
  ELSE KeyNames(Tail(tokens), k)

\* the compiled pattern; regexp is the identity of the automaton object, the
\* number of the compilation that made it
_compilePattern(pattern, serial) ==
  LET tokens == Tokenize(pattern, 1, <<>>)
  IN [pattern |-> pattern, regexp |-> serial,
      paramNames |-> KeyNames(tokens, 0), tokens |-> tokens]

(***************************************************************************)
(* The state.                                                              *)
(***************************************************************************)
VARIABLES
  CompiledPatternsCache,  \* the cache: a function from pattern strings to entries
  compileLog,             \* history: the keys _compilePattern ran for, in order
  op,                     \* the function called last
  pc,                     \* where the current call is
  pattern,                \* the call's pattern argument
  inPathname,             \* the pathname argument of matchPattern and getParams
  match,                  \* what matchPattern returned
  params,                 \* formatPattern's params argument, getParams' params
  tokens,                 \* formatPattern's tokens
  i,                      \* formatPattern's loop index
  parenCount,             \* formatPattern's open-group depth
  pathname,               \* formatPattern's output so far
  splatIndex,             \* formatPattern's index of the next splat value
  parenHistory,           \* formatPattern's buffers, one per open group
  result                  \* what the call returned

vars == <<CompiledPatternsCache, compileLog, op, pc, pattern, inPathname, match,
          params, tokens, i, parenCount, pathname, splatIndex, parenHistory, result>>

cacheVars == <<CompiledPatternsCache, compileLog>>

fmtVars == <<tokens, i, parenCount, pathname, splatIndex, parenHistory>>

matchVars == <<inPathname, match>>

\* matchPattern's null
NoMatch == [k |-> "null", remainingPathname |-> <<>>, paramNames |-> <<>>,
            paramValues |-> <<>>]

(***************************************************************************)
(* compilePattern: the cache.                                              *)
(***************************************************************************)
\* the test that never finds an entry
CacheMiss(cache, p) == FALSE

\* the negation of the test !CompiledPatternsCache[pattern]; an entry is an
\* object, hence truthy
CacheHit(cache, p) == p \in DOMAIN cache

\* the cache after compilePattern(p), log being the compilations so far
CacheAfter(cache, log, p) ==
  IF CacheHit(cache, p) THEN cache
  ELSE [q \in DOMAIN cache \cup {p} |->
          IF q = p THEN _compilePattern(p, Len(log) + 1) ELSE cache[q]]

\* the compilations after compilePattern(p)
LogAfter(cache, log, p) == IF CacheHit(cache, p) THEN log ELSE Append(log, p)

\* compilePattern(p): its effect on the cache
compilePattern(p) ==
  /\ CompiledPatternsCache' = CacheAfter(CompiledPatternsCache, compileLog, p)
  /\ compileLog' = LogAfter(CompiledPatternsCache, compileLog, p)

\* what compilePattern(p) returns
Compiled(p) == CacheAfter(CompiledPatternsCache, compileLog, p)[p]

(***************************************************************************)
(* formatPattern: one iteration of the token loop.  st holds the locals    *)
(* i, parenCount, pathname, splatIndex, parenHistory, and threw, set when  *)
(* an invariant() of the iteration fails.                                  *)
(*                                                                         *)
(* parenHistory is the array part of the source's parenHistory.  A write   *)
(* to parenHistory[k] with k < 0 makes a property named k of the array     *)
(* object, which neither pop() nor pathname ever reads: such a write       *)
(* leaves the model's parenHistory as it is, and the text is lost.         *)
(***************************************************************************)
\* parenHistory[idx] = text
HistSet(hist, idx, text) ==
  IF idx < 0 THEN hist
  ELSE IF idx < Len(hist) THEN [hist EXCEPT ![idx + 1] = text]
  ELSE Append(hist, text)

\* parenHistory[idx] += text
HistAdd(hist, idx, text) ==
  IF idx < 0 \/ idx >= Len(hist) THEN hist
  ELSE [hist EXCEPT ![idx + 1] = @ \o text]

\* the condition with the depth test off by one: a missing value passes at depth 0
ValueOrNotBelowZero(paramValue, count) == NotNull(paramValue) \/ count >= 0

\* the condition of the invariant() calls on a param or splat value
ValueOrOptional(paramValue, count) == NotNull(paramValue) \/ count > 0

\* Array.isArray(params.splat) ? params.splat[splatIndex++] : params.splat
SplatValue(ps, idx) ==
  IF IsArray(Lookup(ps, SPLAT)) THEN ArrayGet(Lookup(ps, SPLAT), idx)
  ELSE Lookup(ps, SPLAT)

\* splatIndex after the splat's value is read
SplatIndexAfter(ps, idx) == IF IsArray(Lookup(ps, SPLAT)) THEN idx + 1 ELSE idx

\* where a supplied splat value is written
SplatWrite(st, text) == [st EXCEPT !.pathname = @ \o text]

\* the branch of a `*` or `**` token
SplatBranch(ps, st) ==
  LET paramValue == SplatValue(ps, st.splatIndex)
      read == [st EXCEPT !.splatIndex = SplatIndexAfter(ps, st.splatIndex)]
  IN IF ~ValueOrOptional(paramValue, st.parenCount) THEN [read EXCEPT !.threw = TRUE]
     ELSE IF NotNull(paramValue) THEN SplatWrite(read, encodeURI(paramValue))
     ELSE read

\* the branch of a `(` token
OpenBranch(st) ==
  [st EXCEPT !.parenHistory = HistSet(@, st.parenCount, <<>>),
             !.parenCount = @ + 1]

\* parenHistory.pop(): undefined from an empty array
Popped(hist) == IF hist = <<>> THEN Undefined ELSE StrV(hist[Len(hist)])

\* the text `+=` appends for a popped value
PoppedText(v) ==
  IF NotNull(v) THEN v.s ELSE <<"u", "n", "d", "e", "f", "i", "n", "e", "d">>

\* the branch of a `)` token
CloseBranch(st) ==
  LET parenText == Popped(st.parenHistory)
      rest == IF st.parenHistory = <<>> THEN <<>>
              ELSE SubSeq(st.parenHistory, 1, Len(st.parenHistory) - 1)
      count == st.parenCount - 1
  IN IF count # 0
       THEN [st EXCEPT !.parenCount = count,
                       !.parenHistory = HistAdd(rest, count - 1, PoppedText(parenText))]
       ELSE [st EXCEPT !.parenCount = count,
                       !.parenHistory = rest,
                       !.pathname = @ \o PoppedText(parenText)]

\* the branches of the `\(` and `\)` tokens
EscapedBranch(st, token) == [st EXCEPT !.pathname = @ \o <<token[2]>>]

\* tokens.indexOf(token): the first occurrence
IndexOf(toks, token) ==
  (CHOOSE k \in 1..Len(toks) : toks[k] = token /\ \A j \in 1..(k - 1) : toks[j] # token) - 1

\* the index of the first `)` of tokensSubset, -1 if it has none
NextParenIdx(tokensSubset) ==
  IF \E k \in 1..Len(tokensSubset) : tokensSubset[k] = CLOSE
    THEN (CHOOSE k \in 1..Len(tokensSubset) :
            /\ tokensSubset[k] = CLOSE
            /\ \A j \in 1..(k - 1) : tokensSubset[j] # CLOSE) - 1
    ELSE -1

\* a named param without a value, in an open group: clear the group's buffer
\* and jump to an ending paren
ElideBranch(toks, st, token) ==
  LET cleared == [st EXCEPT !.parenHistory = HistSet(@, st.parenCount - 1, <<>>)]
      curTokenIdx == IndexOf(toks, token)
      tokensSubset == SubSeq(toks, curTokenIdx + 1, Len(toks))
      nextParenIdx == NextParenIdx(tokensSubset)
  IN IF ~(nextParenIdx > 0) THEN [cleared EXCEPT !.threw = TRUE]
     ELSE [cleared EXCEPT !.i = curTokenIdx + nextParenIdx - 1]

\* the branch of a `:name` token
ParamBranch(toks, ps, st, token) ==
  LET paramName == Substring(token, 1)
      paramValue == Lookup(ps, paramName)
  IN IF ~ValueOrOptional(paramValue, st.parenCount) THEN [st EXCEPT !.threw = TRUE]
     ELSE IF ~NotNull(paramValue)
       THEN (IF st.parenCount # 0 THEN ElideBranch(toks, st, token) ELSE st)
     ELSE IF st.parenCount # 0
       THEN [st EXCEPT !.parenHistory =
                         HistAdd(@, st.parenCount - 1, encodeURIComponent(paramValue))]
     ELSE [st EXCEPT !.pathname = @ \o encodeURIComponent(paramValue)]

\* the branch of any other token
LiteralBranch(st, token) ==
  IF st.parenCount # 0
    THEN [st EXCEPT !.parenHistory = HistAdd(@, st.parenCount - 1, token)]
    ELSE [st EXCEPT !.pathname = @ \o token]

\* the body of the loop for token = tokens[i]
LoopBody(toks, ps, st) ==
  LET token == toks[st.i + 1]
  IN IF IsSplatToken(token) THEN SplatBranch(ps, st)
     ELSE IF token = OPEN THEN OpenBranch(st)
     ELSE IF token = CLOSE THEN CloseBranch(st)
     ELSE IF token \in {ESC_OPEN, ESC_CLOSE} THEN EscapedBranch(st, token)
     ELSE IF CharAt(token, 0) = <<":">> THEN ParamBranch(toks, ps, st, token)
     ELSE LiteralBranch(st, token)

\* one iteration, with the loop's ++i
FormatIteration(toks, ps, st) ==
  LET after == LoopBody(toks, ps, st)
  IN IF after.threw THEN after ELSE [after EXCEPT !.i = @ + 1]

\* the condition of the invariant() after the loop
EndParenCheck(count) == count <= 0

RECURSIVE CollapseSlashes(_)
\* pathname.replace(/\/+/g, '/')
CollapseSlashes(s) ==
  IF Len(s) < 2 THEN s
  ELSE IF s[1] = "/" /\ s[2] = "/" THEN CollapseSlashes(Tail(s))
  ELSE <<s[1]>> \o CollapseSlashes(Tail(s))

(***************************************************************************)
(* formatPattern as actions: the call, one action per loop iteration, and  *)
(* the end of the loop.                                                    *)
(***************************************************************************)
\* the locals as a record, and back
Locals ==
  [i |-> i, parenCount |-> parenCount, pathname |-> pathname,
   splatIndex |-> splatIndex, parenHistory |-> parenHistory, threw |-> FALSE]

\* no call is in progress
Ready == pc \in {"idle", "returned", "threw"}

\* the locals and results of the call before are gone when a call starts
NoFormat ==
  /\ tokens' = <<>>
  /\ i' = 0
  /\ parenCount' = 0
  /\ pathname' = <<>>
  /\ splatIndex' = 0
  /\ parenHistory' = <<>>
  /\ result' = Undefined

\* formatPattern(p, ps) up to the loop
FormatCall(p, ps) ==
  /\ op' = "formatPattern"
  /\ pattern' = p
  /\ params' = ps
  /\ compilePattern(p)
  /\ tokens' = Compiled(p).tokens
  /\ i' = 0
  /\ parenCount' = 0
  /\ pathname' = <<>>
  /\ splatIndex' = 0
  /\ parenHistory' = <<>>
  /\ result' = Undefined
  /\ pc' = "loop"
  /\ IF op = "getParams" THEN UNCHANGED matchVars
     ELSE inPathname' = <<>> /\ match' = NoMatch

\* A call that goes round the loop without end can grow its locals without
\* end: such a run is followed only while the locals are within these sizes,
\* which no call that visits each token once exceeds.
MaxCount == MaxTokens + 1

MaxPathname == 4 * (MaxTokens + 1)

WithinSizes ==
  /\ parenCount <= MaxCount
  /\ splatIndex <= MaxCount
  /\ Len(pathname) <= MaxPathname

\* one iteration of the loop
FormatStep ==
  /\ pc = "loop"
  /\ i < Len(tokens)
  /\ WithinSizes
  /\ LET after == FormatIteration(tokens, params, Locals)
     IN /\ i' = after.i
        /\ parenCount' = after.parenCount
        /\ pathname' = after.pathname
        /\ splatIndex' = after.splatIndex
        /\ parenHistory' = after.parenHistory
        /\ pc' = IF after.threw THEN "threw" ELSE "loop"
  /\ UNCHANGED <<cacheVars, op, pattern, matchVars, params, tokens, result>>

\* the loop is over: the last invariant() and the return
FormatReturn ==
  /\ pc = "loop"
  /\ ~(i < Len(tokens))
  /\ IF EndParenCheck(parenCount)
       THEN pc' = "returned" /\ result' = StrV(CollapseSlashes(pathname))
       ELSE pc' = "threw" /\ result' = Undefined
  /\ UNCHANGED <<cacheVars, op, pattern, matchVars, params, fmtVars>>

(***************************************************************************)
(* SpecFormat: one formatPattern call on every pattern and params of the   *)
(* input sets.                                                             *)
(***************************************************************************)
ParamA == <<":", "a">>
ParamB == <<":", "b">>
Literal == <<"/", "x">>

CoreAtoms == {OPEN, CLOSE, ParamA, STAR}

WideAtoms == CoreAtoms \cup {ParamB, Literal, ESC_OPEN, ESC_CLOSE}

FormatPatterns ==
  { Flatten(atoms) : atoms \in SeqsUpTo(CoreAtoms, MaxTokens) }
    \cup { Flatten(atoms) : atoms \in SeqsUpTo(WideAtoms, MaxWideTokens) }

\* the k-th element of the splat sequences
SplatElem(k) == StrV(<<(<<"s", "t", "u", "v", "w">>)[k]>>)

SplatValues ==
  {Undefined, StrV(<<"s", "/">>)} \cup { ArrV([k \in 1..n |-> SplatElem(k)]) : n \in 0..MaxSplat }

\* a params object: b is always supplied, a and splat may be missing
MkParams(a, splat) ==
  [n \in {<<"b">>} \cup (IF NotNull(a) THEN {<<"a">>} ELSE {})
                    \cup (IF NotNull(splat) THEN {SPLAT} ELSE {}) |->
     IF n = <<"a">> THEN a ELSE IF n = SPLAT THEN splat ELSE StrV(<<"w">>)]

FormatParams ==
  { MkParams(a, splat) : a \in {Undefined, StrV(<<"v", "/">>)}, splat \in SplatValues }

InitLocals ==
  /\ inPathname = <<>>
  /\ match = NoMatch
  /\ tokens = <<>>
  /\ i = 0
  /\ parenCount = 0
  /\ pathname = <<>>
  /\ splatIndex = 0
  /\ parenHistory = <<>>
  /\ result = Undefined

InitFormat ==
  /\ CompiledPatternsCache = <<>>
  /\ compileLog = <<>>
  /\ op = "formatPattern"
  /\ pc = "call"
  /\ pattern \in FormatPatterns
  /\ params \in FormatParams
  /\ InitLocals

FormatEnter == pc = "call" /\ FormatCall(pattern, params)

NextFormat == FormatEnter \/ FormatStep \/ FormatReturn

SpecFormat == InitFormat /\ [][NextFormat]_vars

(***************************************************************************)
(* SpecRepeat: one formatPattern call on the patterns made of groups,      *)
(* literal text and one param name, which can occur more than once.  The   *)
(* call is synchronous: a step that can be taken is taken.                 *)
(***************************************************************************)
RepeatAtoms == {OPEN, CLOSE, ParamA, Literal}

RepeatPatterns == { Flatten(atoms) : atoms \in SeqsUpTo(RepeatAtoms, MaxTokens) }

RepeatParams == { MkParams(a, Undefined) : a \in {Undefined, StrV(<<"v", "/">>)} }

InitRepeat ==
  /\ CompiledPatternsCache = <<>>
  /\ compileLog = <<>>
  /\ op = "formatPattern"
  /\ pc = "call"
  /\ pattern \in RepeatPatterns
  /\ params \in RepeatParams
  /\ InitLocals

SpecRepeat == InitRepeat /\ [][NextFormat]_vars /\ WF_vars(NextFormat)

(***************************************************************************)
(* Properties of formatPattern.                                            *)
(***************************************************************************)
\* the group depth after the first n tokens of toks
DepthAfter(toks, n) ==
  Cardinality({k \in 1..n : toks[k] = OPEN}) - Cardinality({k \in 1..n : toks[k] = CLOSE})

\* every `)` closes an open group and every group is closed
Balanced(toks) ==
  /\ \A n \in 0..Len(toks) : DepthAfter(toks, n) >= 0
  /\ DepthAfter(toks, Len(toks)) = 0

\* the number of splat tokens before the 0-based index idx
SplatsBefore(toks, idx) == Cardinality({k \in 1..idx : IsSplatToken(toks[k])})

\* the 0-based index of the `)` that closes the innermost group open at the
\* 0-based index idx
EnclosingClose(toks, idx) ==
  (CHOOSE j \in (idx + 1)..Len(toks) :
     /\ toks[j] = CLOSE
     /\ DepthAfter(toks, j) = DepthAfter(toks, idx) - 1
     /\ \A m \in (idx + 1)..(j - 1) : DepthAfter(toks, m) >= DepthAfter(toks, idx)) - 1

\* the loop is about to process a token
AtToken == pc = "loop" /\ i < Len(tokens)

\* the token the loop is about to process
Token == tokens[i + 1]

\* the loop is about to process a named param
AtParam == AtToken /\ IsParamToken(Token)

\* the loop is about to process a splat
AtSplat == AtToken /\ IsSplatToken(Token)

\* params has a value for the token the loop is about to process
Supplied ==
  IF IsSplatToken(Token) THEN NotNull(SplatValue(params, splatIndex))
  ELSE NotNull(Lookup(params, Substring(Token, 1)))

\* C1: a named-param or splat token reached at depth 0 without a value makes
\* the call fail, with no path returned; a token whose value is supplied never
\* makes it fail.
C1_MissingValueAtDepthZeroFails ==
  [][ /\ ((AtParam \/ AtSplat) /\ parenCount = 0 /\ ~Supplied)
          => (pc' = "threw" /\ result' = Undefined)
      /\ ((AtParam \/ AtSplat) /\ Supplied) => pc' = "loop" ]_vars

\* C1: the call has failed at a named param that had no value at depth 0,
\* after tokens that were formatted
C1_Witness ==
  /\ pc = "threw"
  /\ i > 0
  /\ i < Len(tokens)
  /\ parenCount = 0
  /\ IsParamToken(Token)
  /\ ~NotNull(Lookup(params, Substring(Token, 1)))
  /\ pathname # <<>>

\* C2: on a pattern with balanced groups, a named param without a value inside
\* a group makes the scan resume at the `)` that closes the innermost group
\* enclosing it.
C2_ElisionResumesAtEnclosingClose ==
  [][ (AtParam /\ Balanced(tokens) /\ DepthAfter(tokens, i) > 0 /\ ~Supplied)
        => (pc' = "loop" /\ i' = EnclosingClose(tokens, i)) ]_vars

\* C5: a path is returned only for a pattern whose groups are balanced.
C5_ReturnsOnlyIfBalanced == pc = "returned" => Balanced(tokens)

\* C7: with params.splat a sequence, the k-th splat token of the pattern is
\* formatted with params.splat[k].
C7_SplatIndexIsTokenOrdinal ==
  (AtSplat /\ IsArray(Lookup(params, SPLAT))) => splatIndex = SplatsBefore(tokens, i)

\* C8: formatPattern terminates, by returning or failing.
C8_Terminates == <>(pc \in {"returned", "threw"})

\* every named param and splat token of toks has a value in ps
AllSupplied(toks, ps) ==
  \A k \in 1..Len(toks) :
    /\ IsParamToken(toks[k]) => NotNull(Lookup(ps, Substring(toks[k], 1)))
    /\ IsSplatToken(toks[k]) => NotNull(SplatValue(ps, SplatsBefore(toks, k - 1)))

\* what the token at the 1-based position k contributes to the path
Contribution(toks, ps, k) ==
  IF IsSplatToken(toks[k]) THEN encodeURI(SplatValue(ps, SplatsBefore(toks, k - 1)))
  ELSE IF toks[k] \in {OPEN, CLOSE} THEN <<>>
  ELSE IF toks[k] \in {ESC_OPEN, ESC_CLOSE} THEN <<toks[k][2]>>
  ELSE IF IsParamToken(toks[k]) THEN encodeURIComponent(Lookup(ps, Substring(toks[k], 1)))
  ELSE toks[k]

\* C9: for a pattern with balanced groups and all params supplied, the result
\* is the contributions of the tokens in token order, separators collapsed.
C9_ResultIsContributionsInOrder ==
  (pc = "returned" /\ Balanced(tokens) /\ AllSupplied(tokens, params))
    => result = StrV(CollapseSlashes(
                  Flatten([k \in 1..Len(tokens) |-> Contribution(tokens, params, k)])))

(***************************************************************************)
(* The automaton.  pathname.match(regexp) is the work of the PathToRegexp  *)
(* dependency and of the regular-expression engine; it is modelled from    *)
(* the specification (section 4.1) and from the comment that documents     *)
(* matchPattern: a named param captures one or more characters up to the   *)
(* next separator, `*` the shortest span and `**` the longest span that    *)
(* lets the rest of the pattern match, a group is optional and taken when  *)
(* it can be, literal text matches itself.  The match starts at the start  *)
(* of the pathname; a pattern that ends with a splat consumes the pathname *)
(* to its end, any other pattern also consumes one separator after its     *)
(* last atom when there is one (section 8: '/users/:id' leaves '/edit' of  *)
(* '/users/42/edit').  A capture is the text of its atom, undefined when   *)
(* the atom lies in a group that was not taken.                            *)
(***************************************************************************)
NoExec == [ok |-> FALSE, end |-> 0, caps |-> <<>>]

\* the 1-based position of the `)` that closes the group opened at position k
MatchingClose(toks, k) ==
  CHOOSE j \in (k + 1)..Len(toks) :
    /\ toks[j] = CLOSE
    /\ DepthAfter(toks, j) = DepthAfter(toks, k) - 1
    /\ \A m \in k..(j - 1) : DepthAfter(toks, m) >= DepthAfter(toks, k)

\* the number of capturing atoms at the positions from..to
Captures(toks, from, to) ==
  Cardinality({k \in from..to : IsSplatToken(toks[k]) \/ IsParamToken(toks[k])})

RECURSIVE SegmentRun(_, _)
\* the number of characters of x from position pos to the next `/`, `?` or `#`
SegmentRun(x, pos) ==
  IF pos > Len(x) \/ x[pos] \in {"/", "?", "#"} THEN 0 ELSE 1 + SegmentRun(x, pos + 1)

\* the text a literal atom matches
LiteralText(token) == IF token \in {ESC_OPEN, ESC_CLOSE} THEN <<token[2]>> ELSE token

RECURSIVE Exec(_, _, _, _)
RECURSIVE TryLen(_, _, _, _, _, _, _, _)
\* the first match, in the engine's order of preference, of the atoms of c
\* from position k on against x from position pos on
Exec(c, x, k, pos) ==
  LET toks == c.tokens
      token == toks[k]
      rem == Len(x) - pos + 1
  IN IF k > Len(toks)
       THEN (IF toks # <<>> /\ IsSplatToken(toks[Len(toks)])
               THEN (IF pos > Len(x) THEN [ok |-> TRUE, end |-> pos, caps |-> <<>>]
                     ELSE NoExec)
             ELSE IF c.pattern[Len(c.pattern)] # "/" /\ pos <= Len(x) /\ x[pos] = "/"
               THEN [ok |-> TRUE, end |-> pos + 1, caps |-> <<>>]
             ELSE [ok |-> TRUE, end |-> pos, caps |-> <<>>])
     ELSE IF token = STAR THEN TryLen(c, x, k, pos, 0, 1, 0, rem)
     ELSE IF token = STARSTAR THEN TryLen(c, x, k, pos, rem, -1, 0, rem)
     ELSE IF token = OPEN
       THEN LET taken == Exec(c, x, k + 1, pos)
                j == MatchingClose(toks, k)
                skipped == Exec(c, x, j + 1, pos)
            IN IF taken.ok THEN taken
               ELSE IF skipped.ok
                 THEN [skipped EXCEPT !.caps =
                         [n \in 1..Captures(toks, k, j) |-> Undefined] \o @]
               ELSE NoExec
     ELSE IF token = CLOSE THEN Exec(c, x, k + 1, pos)
     ELSE IF IsParamToken(token)
       THEN TryLen(c, x, k, pos, SegmentRun(x, pos), -1, 1, SegmentRun(x, pos))
     ELSE IF /\ Len(LiteralText(token)) <= rem
             /\ SubSeq(x, pos, pos + Len(LiteralText(token)) - 1) = LiteralText(token)
       THEN Exec(c, x, k + 1, pos + Len(LiteralText(token)))
     ELSE NoExec

\* the capturing atom at position k takes n characters, n going by step from
\* its first value while it stays within lo..hi, until the rest matches
TryLen(c, x, k, pos, n, step, lo, hi) ==
  IF n < lo \/ n > hi THEN NoExec
  ELSE LET rest == Exec(c, x, k + 1, pos + n)
       IN IF rest.ok
            THEN [rest EXCEPT !.caps = <<StrV(SubSeq(x, pos, pos + n - 1))>> \o @]
            ELSE TryLen(c, x, k, pos, n + step, step, lo, hi)

\* pathname.match(regexp): ok, the matched text match[0] and match.slice(1)
RegexpMatch(c, x) ==
  LET r == Exec(c, x, 1, 1)
  IN [ok |-> r.ok, matchedPath |-> SubSeq(x, 1, r.end - 1), caps |-> r.caps]

(***************************************************************************)
(* matchPattern and getParams.                                             *)
(***************************************************************************)
\* the pattern with a leading slash
WithLeadingSlash(p) == IF CharAt(p, 0) # <<"/">> THEN <<"/">> \o p ELSE p

\* the boundary test on the first character instead of the last
StartsAtSeparator(matchedPath) == CharAt(matchedPath, 0) = <<"/">>

\* matchedPath.charAt(matchedPath.length - 1) !== '/' is false
EndsAtSeparator(matchedPath) == CharAt(matchedPath, Len(matchedPath) - 1) = <<"/">>

\* the mapping with every falsy capture turned into undefined
DecodeCaptureOrUndefined(v) ==
  IF ~NotNull(v) \/ v.s = <<>> THEN Undefined ELSE StrV(decodeURIComponent(v.s))

\* v && decodeURIComponent(v): a falsy v, undefined or the empty string, as it is
DecodeCapture(v) ==
  IF ~NotNull(v) \/ v.s = <<>> THEN v ELSE StrV(decodeURIComponent(v.s))

\* decodeURIComponent throws for the capture v
DecodeThrows(v) == NotNull(v) /\ v.s # <<>> /\ ~Decodable(v.s)

\* what matchPattern returns for the compiled pattern c and the pathname x;
\* k is "threw" when decodeURIComponent throws
MatchResult(c, x) ==
  LET m == RegexpMatch(c, x)
      rest == Substring(x, Len(m.matchedPath))
  IN IF ~m.ok THEN NoMatch
     ELSE IF rest # <<>> /\ ~EndsAtSeparator(m.matchedPath) THEN NoMatch
     ELSE IF \E n \in 1..Len(m.caps) : DecodeThrows(m.caps[n])
       THEN [NoMatch EXCEPT !.k = "threw"]
     ELSE [k |-> "result",
           remainingPathname |-> IF rest # <<>> THEN <<"/">> \o rest ELSE rest,
           paramNames |-> c.paramNames,
           paramValues |-> [n \in 1..Len(m.caps) |-> DecodeCapture(m.caps[n])]]

\* the params object getParams builds from a match: a later name overwrites
\* an earlier one
ParamsOf(m) ==
  [name \in {m.paramNames[n] : n \in 1..Len(m.paramNames)} |->
     LET last == CHOOSE n \in 1..Len(m.paramNames) :
                   /\ m.paramNames[n] = name
                   /\ \A n2 \in (n + 1)..Len(m.paramNames) : m.paramNames[n2] # name
     IN IF last <= Len(m.paramValues) THEN m.paramValues[last] ELSE Undefined]

\* matchPattern(p, x)
MatchPatternCall(p, x) ==
  /\ op' = "matchPattern"
  /\ pattern' = p
  /\ inPathname' = x
  /\ compilePattern(WithLeadingSlash(p))
  /\ match' = MatchResult(Compiled(WithLeadingSlash(p)), x)
  /\ pc' = IF match'.k = "threw" THEN "threw" ELSE "returned"
  /\ params' = <<>>
  /\ NoFormat

\* getParams(p, x)
GetParamsCall(p, x) ==
  /\ op' = "getParams"
  /\ pattern' = p
  /\ inPathname' = x
  /\ compilePattern(WithLeadingSlash(p))
  /\ match' = MatchResult(Compiled(WithLeadingSlash(p)), x)
  /\ pc' = IF match'.k = "threw" THEN "threw" ELSE "returned"
  /\ params' = IF match'.k = "result" THEN ParamsOf(match') ELSE <<>>
  /\ NoFormat

(***************************************************************************)
(* SpecMatch: getParams(pattern, pathname), which is matchPattern and the  *)
(* zip of its names and values, on every pattern and pathname of the input *)
(* sets, and then formatPattern(pattern, params) on the params it returned.*)
(***************************************************************************)
MatchAtoms == {<<"/">>, <<"x">>, ParamA, STAR, OPEN, CLOSE}

\* the patterns whose groups are balanced: the automaton of no other pattern
\* is described
MatchPatterns ==
  { p \in { Flatten(atoms) : atoms \in SeqsUpTo(MatchAtoms, MaxMatchTokens) } :
      Balanced(Tokenize(WithLeadingSlash(p), 1, <<>>)) }

PathChars == {"/", "x", "%", "2"}

Paths == { <<"/">> \o t : t \in SeqsUpTo(PathChars, MaxPath - 1) }

InitMatch ==
  /\ CompiledPatternsCache = <<>>
  /\ compileLog = <<>>
  /\ op = "getParams"
  /\ pc = "call"
  /\ pattern \in MatchPatterns
  /\ params = <<>>
  /\ inPathname \in Paths
  /\ match = NoMatch
  /\ tokens = <<>>
  /\ i = 0
  /\ parenCount = 0
  /\ pathname = <<>>
  /\ splatIndex = 0
  /\ parenHistory = <<>>
  /\ result = Undefined

GetParamsEnter == pc = "call" /\ GetParamsCall(pattern, inPathname)

\* formatPattern(pattern, getParams(pattern, pathname))
FormatBack ==
  /\ op = "getParams"
  /\ pc = "returned"
  /\ match.k = "result"
  /\ FormatCall(pattern, params)

NextMatch == GetParamsEnter \/ FormatBack \/ FormatStep \/ FormatReturn

SpecMatch == InitMatch /\ [][NextMatch]_vars

\* getParams has returned or thrown
Matched == op = "getParams" /\ pc \in {"returned", "threw"}

\* the automaton's match for the call
Automaton == RegexpMatch(CompiledPatternsCache[WithLeadingSlash(pattern)], inPathname)

\* the rest of the pathname after the automaton's match
Rest == Substring(inPathname, Len(Automaton.matchedPath))

\* toks has no group
NoGroups(toks) == \A k \in 1..Len(toks) : toks[k] \notin {OPEN, CLOSE}

\* C3: for a pattern without optional groups, when matchPattern succeeds with
\* an empty remainingPathname, formatPattern on the params getParams returned
\* does not fail and returns the pathname with its separators collapsed.
C3_RoundTrip ==
  ( /\ op = "formatPattern"
    /\ pc \in {"returned", "threw"}
    /\ match.k = "result"
    /\ match.remainingPathname = <<>>
    /\ NoGroups(tokens) )
    => (pc = "returned" /\ result = StrV(CollapseSlashes(inPathname)))

\* C4: with M the automaton's match and R the rest of the pathname, a result
\* for an empty R has remainingPathname '', there is no result for a
\* non-empty R when M does not end with '/', and a result for a non-empty R
\* after an M that ends with '/' has remainingPathname '/' + R; so a
\* remainingPathname is empty or starts with '/'.  The call returns unless
\* decodeURIComponent rejects a capture of a match that passed the rule.
C4_BoundaryRule ==
  (Matched /\ Automaton.ok) =>
    /\ (Rest = <<>> /\ pc = "returned")
         => (match.k = "result" /\ match.remainingPathname = <<>>)
    /\ (Rest # <<>> /\ ~(CharAt(Automaton.matchedPath, Len(Automaton.matchedPath) - 1) = <<"/">>))
         => (pc = "returned" /\ match.k = "null")
    /\ (Rest # <<>> /\ CharAt(Automaton.matchedPath, Len(Automaton.matchedPath) - 1) = <<"/">>
          /\ pc = "returned")
         => (match.k = "result" /\ match.remainingPathname = <<"/">> \o Rest)
    /\ match.k = "result"
         => (match.remainingPathname = <<>> \/ Head(match.remainingPathname) = "/")
    /\ pc = "threw"
         => \E n \in 1..Len(Automaton.caps) : DecodeThrows(Automaton.caps[n])

\* C4: a match that stops at a separator before the end of the pathname has
\* returned the rest as remainingPathname
C4_Witness ==
  /\ Matched
  /\ match.k = "result"
  /\ Rest # <<>>
  /\ match.remainingPathname = <<"/">> \o Rest

\* C6 as claimed: paramValues has one entry per capture, undefined for a
\* capture that is empty or absent and the decoded text for any other.
C6_EmptyOrAbsentIsAbsent ==
  (Matched /\ match.k = "result") =>
    /\ Len(match.paramValues) = Len(Automaton.caps)
    /\ \A n \in 1..Len(Automaton.caps) :
         match.paramValues[n] =
           IF ~NotNull(Automaton.caps[n]) \/ Automaton.caps[n].s = <<>> THEN Undefined
           ELSE StrV(decodeURIComponent(Automaton.caps[n].s))

\* C6 as amended: paramValues has one entry per capture and per name,
\* undefined for an absent capture, the empty string for an empty capture
\* and the decoded text for any other.
C6_AbsentIsAbsentEmptyIsEmpty ==
  (Matched /\ match.k = "result") =>
    /\ Len(match.paramValues) = Len(Automaton.caps)
    /\ Len(match.paramValues) = Len(match.paramNames)
    /\ \A n \in 1..Len(Automaton.caps) :
         match.paramValues[n] =
           IF ~NotNull(Automaton.caps[n]) THEN Undefined
           ELSE IF Automaton.caps[n].s = <<>> THEN StrV(<<>>)
           ELSE StrV(decodeURIComponent(Automaton.caps[n].s))

\* C6: a result whose capture is the empty string has the empty string for it
C6_Witness ==
  /\ Matched
  /\ match.k = "result"
  /\ \E n \in 1..Len(Automaton.caps) :
       /\ NotNull(Automaton.caps[n])
       /\ Automaton.caps[n].s = <<>>
       /\ match.paramValues[n] = StrV(<<>>)

(***************************************************************************)
(* Spec: any sequence of calls of the five exported functions, one after   *)
(* the other, on a small set of patterns, pathnames and params.            *)
(***************************************************************************)
\* nothing of a match or of a format is left when another call starts
NoOtherCall ==
  /\ inPathname' = <<>>
  /\ match' = NoMatch
  /\ params' = <<>>
  /\ tokens' = <<>>
  /\ i' = 0
  /\ parenCount' = 0
  /\ pathname' = <<>>
  /\ splatIndex' = 0
  /\ parenHistory' = <<>>

\* compilePattern(p), called from outside
CompilePatternCall(p) ==
  /\ op' = "compilePattern"
  /\ pattern' = p
  /\ compilePattern(p)
  /\ result' = Compiled(p)
  /\ pc' = "returned"
  /\ NoOtherCall

\* getParamNames(p)
GetParamNamesCall(p) ==
  /\ op' = "getParamNames"
  /\ pattern' = p
  /\ compilePattern(p)
  /\ result' = [k |-> "names", names |-> Compiled(p).paramNames]
  /\ pc' = "returned"
  /\ NoOtherCall

CachePatterns == { <<"x">>, <<"/", "x">>, <<"(", ":", "a", ")", "*">> }

CachePaths == { <<"/", "x">>, <<"/", "x", "/", "x">> }

CacheParams == { <<>>, MkParams(StrV(<<"v">>), StrV(<<"s">>)) }

Init ==
  /\ CompiledPatternsCache = <<>>
  /\ compileLog = <<>>
  /\ op = "none"
  /\ pc = "idle"
  /\ pattern = <<>>
  /\ params = <<>>
  /\ InitLocals

CallCompilePattern == Ready /\ \E p \in CachePatterns : CompilePatternCall(p)

CallGetParamNames == Ready /\ \E p \in CachePatterns : GetParamNamesCall(p)

CallMatchPattern ==
  Ready /\ \E p \in CachePatterns, x \in CachePaths : MatchPatternCall(p, x)

CallGetParams ==
  Ready /\ \E p \in CachePatterns, x \in CachePaths : GetParamsCall(p, x)

CallFormatPattern ==
  Ready /\ \E p \in CachePatterns, ps \in CacheParams : FormatCall(p, ps)

Next ==
  \/ CallCompilePattern
  \/ CallGetParamNames
  \/ CallMatchPattern
  \/ CallGetParams
  \/ CallFormatPattern
  \/ FormatStep
  \/ FormatReturn

Spec == Init /\ [][Next]_vars

\* the key the call made last compiles
CacheKey(o, p) == IF o \in {"matchPattern", "getParams"} THEN WithLeadingSlash(p) ELSE p

\* the elements of a sequence
Range(seq) == { seq[n] : n \in 1..Len(seq) }

\* C10: a call leaves in the cache the entries it found, unchanged, and the
\* entry of the pattern it compiles (normalized to start with '/' for
\* matchPattern and getParams); the compiler has run once for each key of the
\* cache and for nothing else; compilePattern returns the stored entry; no
\* other step touches the cache.
C10_CacheGrowsOncePerKey ==
  [][ /\ \A q \in DOMAIN CompiledPatternsCache :
           /\ q \in DOMAIN CompiledPatternsCache'
           /\ CompiledPatternsCache'[q] = CompiledPatternsCache[q]
      /\ Range(compileLog') = DOMAIN CompiledPatternsCache'
      /\ Len(compileLog') = Cardinality(DOMAIN CompiledPatternsCache')
      /\ IF pc # "loop"
           THEN /\ DOMAIN CompiledPatternsCache' =
                     DOMAIN CompiledPatternsCache \cup {CacheKey(op', pattern')}
                /\ CompiledPatternsCache'[CacheKey(op', pattern')].pattern
                     = CacheKey(op', pattern')
                /\ op' = "compilePattern" => result' = CompiledPatternsCache'[pattern']
                /\ op' = "getParamNames"
                     => result'.names = CompiledPatternsCache'[pattern'].paramNames
                /\ op' = "formatPattern" => tokens' = CompiledPatternsCache'[pattern'].tokens
           ELSE DOMAIN CompiledPatternsCache' = DOMAIN CompiledPatternsCache ]_vars

\* C10: a call has found its pattern in the cache, compiled before another
\* pattern was, and has returned that entry
C10_Witness ==
  /\ op = "compilePattern"
  /\ pc = "returned"
  /\ Cardinality(DOMAIN CompiledPatternsCache) >= 2
  /\ result = CompiledPatternsCache[pattern]
  /\ result.regexp < Len(compileLog)

====
